---- MODULE Spec2Model ----
(***************************************************************************)
(* derive_from_env: the code that #[derive(FromEnv)] generates             *)
(* (derive_from_env_proc/src/lib.rs) run against a process environment.    *)
(*                                                                         *)
(* Text is a sequence of one-character strings, so that name composition   *)
(* (format!("{prefix}_{}", ...)), upper-casing and parsing are computed    *)
(* character by character as the code computes them.                       *)
(***************************************************************************)
EXTENDS Integers, Sequences, FiniteSets, TLC

VARIABLES root, prefix, names, env, plain, prefixed, run

vars == <<root, prefix, names, env, plain, prefixed, run>>

(***************************************************************************)
(* Bounds of the exploration.                                              *)
(***************************************************************************)
\* at most this many variables are set in the environment at one time
MaxSet == 2

(***************************************************************************)
(* Text helpers.                                                           *)
(***************************************************************************)
Lower == <<"a","b","c","d","e","f","g","h","i","j","k","l","m",
           "n","o","p","q","r","s","t","u","v","w","x","y","z">>

Upper == <<"A","B","C","D","E","F","G","H","I","J","K","L","M",
           "N","O","P","Q","R","S","T","U","V","W","X","Y","Z">>

\* char::to_uppercase on the ASCII range: letters fold, everything else stays
UpperChar(c) ==
    IF \E i \in DOMAIN Lower : Lower[i] = c
    THEN Upper[CHOOSE i \in DOMAIN Lower : Lower[i] = c]
    ELSE c

\* str::to_uppercase
to_uppercase(s) == [i \in DOMAIN s |-> UpperChar(s[i])]

\* format!("{prefix}_{}", name)
format(p, name) == p \o <<"_">> \o name

\* Option<syn::Lit>: an attribute that may be absent
None == [some |-> FALSE, v |-> <<>>]

Some(t) == [some |-> TRUE, v |-> t]

(***************************************************************************)
(* Types and their FromStr parsers.                                        *)
(***************************************************************************)
\* a syn::Type that is a path: its segments' idents and the generic
\* arguments of the last segment
Ty(id) == [path |-> <<id>>, args |-> <<>>]

OptionOf(id) == [path |-> <<"Option">>, args |-> <<id>>]

\* the idents impl_from_str accepts
FromStrIdents ==
    {"i8", "i16", "i32", "i64", "i128",
     "u8", "u16", "u32", "u64", "u128",
     "f32", "f64", "bool", "char", "usize",
     "isize", "String", "IpAddr", "SocketAddr",
     "PathBuf", "IpV4Addr", "IpV6Addr"}

impl_from_str(ty) == \A i \in DOMAIN ty.path : ty.path[i] \in FromStrIdents

\* stringify!(#field_type): the type's tokens
stringify(ty) ==
    LET segs == [i \in 1..(2 * Len(ty.path) - 1) |->
                    IF i % 2 = 1 THEN ty.path[(i + 1) \div 2] ELSE "::"]
    IN  IF ty.args = <<>> THEN segs ELSE segs \o <<"<">> \o ty.args \o <<">">>

Digits == <<"0","1","2","3","4","5","6","7","8","9">>

IsDigit(c) == \E i \in DOMAIN Digits : Digits[i] = c

DigitVal(c) == (CHOOSE i \in DOMAIN Digits : Digits[i] = c) - 1

RECURSIVE DecimalValue(_)
DecimalValue(s) ==
    IF s = <<>> THEN 0
    ELSE 10 * DecimalValue(SubSeq(s, 1, Len(s) - 1)) + DigitVal(s[Len(s)])

\* a parsed leaf value: a number for the integer types, the text for String
NumVal(n) == [num |-> n, txt |-> <<>>]

TxtVal(t) == [num |-> 0, txt |-> t]

ParseOk(v) == [ok |-> TRUE, val |-> v]

ParseErr == [ok |-> FALSE, val |-> TxtVal(<<>>)]

\* the negated value of a digit string, so that i32::MIN is computed
\* without leaving the 32-bit range
RECURSIVE NegDecimalValue(_)
NegDecimalValue(s) ==
    IF s = <<>> THEN 0
    ELSE 10 * NegDecimalValue(SubSeq(s, 1, Len(s) - 1)) - DigitVal(s[Len(s)])

RECURSIVE StripZeros(_)
StripZeros(s) ==
    IF s # <<>> /\ s[1] = "0" THEN StripZeros(Tail(s)) ELSE s

\* a <= b for digit strings without leading zeros
DigitsLeq(a, b) ==
    \/ Len(a) < Len(b)
    \/ /\ Len(a) = Len(b)
       /\ \/ a = b
          \/ \E i \in DOMAIN a :
                /\ DigitVal(a[i]) < DigitVal(b[i])
                /\ \A j \in 1..(i - 1) : a[j] = b[j]

\* the largest magnitude of an integer type, as digits
MaxDigits(id, neg) ==
    CASE id = "u8"  -> <<"2","5","5">>
      [] id = "u16" -> <<"6","5","5","3","5">>
      [] id = "i8"  -> IF neg THEN <<"1","2","8">> ELSE <<"1","2","7">>
      [] id = "i16" -> IF neg THEN <<"3","2","7","6","8">>
                       ELSE <<"3","2","7","6","7">>
      [] OTHER      -> IF neg THEN <<"2","1","4","7","4","8","3","6","4","8">>
                       ELSE <<"2","1","4","7","4","8","3","6","4","7">>

\* <uN as FromStr>::from_str: an optional "+", then one or more digits;
\* rejected when empty, when a character is not a digit, or out of range
ParseUnsigned(id, text) ==
    LET body == IF text # <<>> /\ text[1] = "+" THEN Tail(text) ELSE text
    IN  IF body = <<>> \/ \E i \in DOMAIN body : ~IsDigit(body[i])
        THEN ParseErr
        ELSE IF ~DigitsLeq(StripZeros(body), MaxDigits(id, FALSE))
             THEN ParseErr
             ELSE ParseOk(NumVal(DecimalValue(StripZeros(body))))

\* <iN as FromStr>::from_str: an optional sign, then one or more digits
ParseSigned(id, text) ==
    LET neg  == text # <<>> /\ text[1] = "-"
        body == IF text # <<>> /\ text[1] \in {"+", "-"} THEN Tail(text) ELSE text
    IN  IF body = <<>> \/ \E i \in DOMAIN body : ~IsDigit(body[i])
        THEN ParseErr
        ELSE IF ~DigitsLeq(StripZeros(body), MaxDigits(id, neg))
             THEN ParseErr
             ELSE ParseOk(NumVal(IF neg THEN NegDecimalValue(StripZeros(body))
                                 ELSE DecimalValue(StripZeros(body))))

\* <#field_type as FromStr>::from_str for the types of the schemas below
from_str(ty, text) ==
    LET id == ty.path[Len(ty.path)]
    IN  CASE id = "String"               -> ParseOk(TxtVal(text))
          [] id \in {"u8", "u16"}        -> ParseUnsigned(id, text)
          [] id \in {"i8", "i16", "i32"} -> ParseSigned(id, text)
          [] OTHER                       -> ParseErr

(***************************************************************************)
(* FromEnvError and the outcome of one call.                               *)
(***************************************************************************)
\* Ok(Self { .. }); reads lists the names passed to std::env::var, in order
Ok(v, rd) ==
    [kind |-> "Ok", value |-> v, var_name |-> <<>>,
     expected_type |-> <<>>, str_value |-> <<>>, reads |-> rd]

\* Err(FromEnvError::MissingEnvVar { var_name })
MissingEnvVar(name, rd) ==
    [kind |-> "MissingEnvVar", value |-> <<>>, var_name |-> name,
     expected_type |-> <<>>, str_value |-> <<>>, reads |-> rd]

\* Err(FromEnvError::ParsingFailure { var_name, expected_type, str_value })
ParsingFailure(name, ety, text, rd) ==
    [kind |-> "ParsingFailure", value |-> <<>>, var_name |-> name,
     expected_type |-> ety, str_value |-> text, reads |-> rd]

\* Result::unwrap on an Err: the thread panics
Panic(name, rd) ==
    [kind |-> "Panic", value |-> <<>>, var_name |-> name,
     expected_type |-> <<>>, str_value |-> <<>>, reads |-> rd]

\* the derive cannot produce a program: the macro panicked during
\* expansion, or the generated code names a trait implementation that
\* does not exist; why says which
CompileError(why) ==
    [kind |-> "CompileError", value |-> <<>>, var_name |-> <<>>,
     expected_type |-> <<why>>, str_value |-> <<>>, reads |-> <<>>]

\* no call made since the environment last changed
NoCall ==
    [kind |-> "NoCall", value |-> <<>>, var_name |-> <<>>,
     expected_type |-> <<>>, str_value |-> <<>>, reads |-> <<>>]

\* std::env::var(name) on environment e (a map from the set names to text)
env_var(e, name) ==
    IF name \in DOMAIN e THEN [ok |-> TRUE, v |-> e[name]]
    ELSE [ok |-> FALSE, v |-> <<>>]

(***************************************************************************)
(* Field descriptors: what darling reads from one field of the struct.     *)
(***************************************************************************)
\* EnvField; extra holds the attribute keys that EnvField does not declare
EnvField(name, ty) ==
    [ident |-> name, ty |-> ty, default |-> None, no_prefix |-> FALSE,
     var |-> None, from_str |-> FALSE, extra |-> {}]

\* EnvField::from_field(field): Err on an attribute key EnvField lacks
from_field_ok(f) == f.extra = {}

\* the branch test of both loader closures
IsLeaf(f) == impl_from_str(f.ty) \/ f.from_str

\* the variable a leaf is read from in from_env()
LeafName(f) ==
    IF f.var.some THEN f.var.v ELSE to_uppercase(f.ident)

\* the variable a leaf is read from in from_env_with_prefix(prefix)
LeafNameWithPrefix(f, p) ==
    IF f.var.some THEN f.var.v ELSE format(p, to_uppercase(f.ident))

\* a call of one of the two trait methods
CallFromEnv == [with_prefix |-> FALSE, prefix |-> <<>>]

CallFromEnvWithPrefix(p) == [with_prefix |-> TRUE, prefix |-> p]

\* the call from_env() makes for a structured field
NestedCall(f) ==
    IF f.no_prefix THEN CallFromEnv
    ELSE CallFromEnvWithPrefix(to_uppercase(f.ident))

\* the call from_env_with_prefix(prefix) makes for a structured field
NestedCallWithPrefix(f, p) ==
    IF f.no_prefix THEN CallFromEnv
    ELSE CallFromEnvWithPrefix(format(p, to_uppercase(f.ident)))

\* the (Some(default), _) arms: read, fall back to the default, parse;
\* on a parse failure the variable is read a second time for str_value
LoadDefaulted(f, name, e) ==
    LET first  == env_var(e, name)
        text   == IF first.ok THEN first.v ELSE f.default.v
        parsed == from_str(f.ty, text)
        second == env_var(e, name)
    IN  IF parsed.ok THEN Ok(parsed.val, <<name>>)
        ELSE ParsingFailure(name, stringify(f.ty),
                            IF second.ok THEN second.v ELSE f.default.v,
                            <<name, name>>)

\* arms that unwrap the first read instead of mapping its Err
LoadRequiredUnwrapFirst(f, name, e) ==
    LET first  == env_var(e, name)
        parsed == from_str(f.ty, first.v)
    IN  IF ~first.ok THEN Panic(name, <<name>>)
        ELSE IF parsed.ok THEN Ok(parsed.val, <<name>>)
        ELSE ParsingFailure(name, stringify(f.ty), first.v, <<name, name>>)

\* the (None, _) arms: read or MissingEnvVar, parse; on a parse failure
\* the variable is read a second time and the read is unwrapped
LoadRequired(f, name, e) ==
    LET first  == env_var(e, name)
        parsed == from_str(f.ty, first.v)
        second == env_var(e, name)
    IN  IF ~first.ok THEN MissingEnvVar(name, <<name>>)
        ELSE IF parsed.ok THEN Ok(parsed.val, <<name>>)
        ELSE IF ~second.ok THEN Panic(name, <<name, name>>)
        ELSE ParsingFailure(name, stringify(f.ty), second.v, <<name, name>>)

\* the four match arms of a leaf, given the name the variant computed
LoadLeaf(f, name, e) ==
    IF f.default.some THEN LoadDefaulted(f, name, e)
    ELSE LoadRequired(f, name, e)

(***************************************************************************)
(* The structs the derive is applied to.                                   *)
(***************************************************************************)
id_name == <<"n","a","m","e">>

id_count == <<"c","o","u","n","t">>

id_host == <<"h","o","s","t">>

id_port == <<"p","o","r","t">>

id_database == <<"d","a","t","a","b","a","s","e">>

id_pool == <<"p","o","o","l">>

id_max == <<"m","a","x">>

id_optional_num == <<"o","p","t">>

id_absolute == <<"a","b","s">>

txt_5432 == <<"5","4","3","2">>

txt_10 == <<"1","0">>

txt_X == <<"X">>

txt_db == <<"d","b">>

txt_custom == <<"c","n">>

id_ipv4 == <<"i","p","v","4">>

id_log_level == <<"l","v","l">>

id_value == <<"v","a","l">>

id_optional == <<"o","p","l">>

WithDefault(f, t) == [f EXCEPT !.default = Some(t)]

WithVar(f, t) == [f EXCEPT !.var = Some(t)]

NoPrefix(f) == [f EXCEPT !.no_prefix = TRUE]

\* #[from_env(rename = "..")] as written on a field: a key EnvField lacks
Renamed(f, t) == [f EXCEPT !.extra = @ \cup {[key |-> "rename", v |-> t]}]

\* a struct item: its #[from_env(prefix = ..)] attribute and its fields
Struct(p, fs) == [prefix_attr |-> p, fields |-> fs]

DatabaseConfigFields ==
    <<EnvField(id_host, Ty("String")),
      WithDefault(EnvField(id_port, Ty("u16")), txt_5432)>>

Structs ==
    [SimpleStruct |->
        Struct(None, <<EnvField(id_name, Ty("String")),
                       EnvField(id_count, Ty("u16"))>>),
     SimpleStructWithPrefix |->
        Struct(Some(<<"A","P","P","_">>),
               <<EnvField(id_name, Ty("String")),
                 EnvField(id_count, Ty("u16"))>>),
     WithOptions |->
        Struct(None, <<EnvField(id_name, Ty("String")),
                       EnvField(id_optional_num, OptionOf("i32"))>>),
     WithVarAttribute |->
        Struct(None, <<WithVar(EnvField(id_absolute, Ty("i32")), txt_X),
                       EnvField(id_name, Ty("String"))>>),
     WithVarDefault |->
        Struct(None,
               <<WithDefault(WithVar(EnvField(id_absolute, Ty("i32")), txt_X),
                             txt_5432)>>),
     WithVarOption |->
        Struct(None, <<WithVar(EnvField(id_optional_num, OptionOf("i32")),
                               txt_X)>>),
     DatabaseConfig |-> Struct(None, DatabaseConfigFields),
     DatabaseConfigWithPrefix |->
        Struct(Some(<<"D","B","_">>),
               <<EnvField(id_host, Ty("String")),
                 EnvField(id_port, Ty("u16"))>>),
     VarConfig |->
        Struct(None, <<WithVar(EnvField(id_host, Ty("String")), txt_X)>>),
     AppWithDatabase |->
        Struct(None, <<EnvField(id_name, Ty("String")),
                       EnvField(id_database, Ty("DatabaseConfig"))>>),
     AppWithVarConfig |->
        Struct(None, <<EnvField(id_database, Ty("VarConfig"))>>),
     AppWithPrefixedDatabase |->
        Struct(None,
               <<EnvField(id_database, Ty("DatabaseConfigWithPrefix"))>>),
     AppWithBothPrefixes |->
        Struct(Some(<<"S","V","C","_">>),
               <<EnvField(id_database, Ty("DatabaseConfigWithPrefix"))>>),
     WithNoPrefix |->
        Struct(None, <<EnvField(id_name, Ty("String")),
                       NoPrefix(EnvField(id_database, Ty("DatabaseConfig")))>>),
     ConnectionPool |->
        Struct(None, <<WithDefault(EnvField(id_max, Ty("u16")), txt_10)>>),
     DeepDatabase |->
        Struct(None, <<EnvField(id_host, Ty("String")),
                       EnvField(id_pool, Ty("ConnectionPool"))>>),
     DeepApp |->
        Struct(None, <<EnvField(id_database, Ty("DeepDatabase"))>>),
     WithRename |->
        Struct(None, <<Renamed(EnvField(id_name, Ty("String")), txt_custom)>>),
     WithRenamedNested |->
        Struct(None,
               <<Renamed(EnvField(id_database, Ty("CacheConfig")), txt_db)>>),
     CacheConfig |->
        Struct(None, <<EnvField(id_host, Ty("String"))>>),
     WithNoPrefixAndChildPrefix |->
        Struct(Some(<<"O","U","T","_">>),
               <<NoPrefix(EnvField(id_database,
                                   Ty("DatabaseConfigWithPrefix")))>>),
     AppConfig |->
        Struct(Some(<<"A","P","P","_">>),
               <<EnvField(id_name, Ty("String")),
                 NoPrefix(EnvField(id_database, Ty("DatabaseConfig")))>>),
     DefaultOnOptional |->
        Struct(None, <<WithDefault(EnvField(id_optional_num, OptionOf("i32")),
                                   txt_10)>>),
     DefaultOnNested |->
        Struct(None, <<WithDefault(EnvField(id_database, Ty("CacheConfig")),
                                   txt_10)>>),
     VarOnNested |->
        Struct(None, <<WithVar(EnvField(id_database, Ty("CacheConfig")),
                               txt_X)>>),
     NetworkTypes |->
        Struct(None, <<EnvField(id_ipv4, Ty("Ipv4Addr"))>>),
     WithCustomType |->
        Struct(None, <<EnvField(id_log_level, Ty("LogLevel"))>>),
     WithBadDefault |->
        Struct(None, <<WithDefault(EnvField(id_port, Ty("u16")), txt_X)>>),
     EmptyStringTest |->
        Struct(None, <<EnvField(id_value, Ty("String")),
                       EnvField(id_optional, OptionOf("String"))>>)]

\* the last segment of a field's type: the struct a structured field names
TypeIdent(ty) == ty.path[Len(ty.path)]

(***************************************************************************)
(* Expansion of the derive and the build of the generated code.            *)
(***************************************************************************)
\* an expansion whose loaders never look at var on a structured field
ExpansionPanicNoVarCheck(T) ==
    LET fs == Structs[T].fields
    IN  IF \E i \in DOMAIN fs : ~from_field_ok(fs[i])
        THEN "from_field: unknown field"
        ELSE IF \E i \in DOMAIN fs : ~IsLeaf(fs[i]) /\ fs[i].default.some
        THEN "Default value is not supported for structs"
        ELSE "none"

\* from_env_proc_macro on struct T: the panics of the expansion
ExpansionPanic(T) ==
    LET fs == Structs[T].fields
    IN  IF \E i \in DOMAIN fs : ~from_field_ok(fs[i])
        THEN "from_field: unknown field"
        ELSE IF \E i \in DOMAIN fs : ~IsLeaf(fs[i]) /\ fs[i].default.some
        THEN "Default value is not supported for structs"
        ELSE IF \E i \in DOMAIN fs : ~IsLeaf(fs[i]) /\ fs[i].var.some
        THEN "Variable name specification is not suited for structured fields"
        ELSE "none"

\* whether struct T and the code generated for it compile: the expansion
\* does not panic and every structured field's type implements the trait
\* FromEnv, which only a derive implements
RECURSIVE CompileOutcome(_)
CompileOutcome(T) ==
    IF T \notin DOMAIN Structs THEN "the trait FromEnv is not implemented"
    ELSE IF ExpansionPanic(T) # "none" THEN ExpansionPanic(T)
    ELSE LET fs  == Structs[T].fields
             bad == {i \in DOMAIN fs :
                        /\ ~IsLeaf(fs[i])
                        /\ CompileOutcome(TypeIdent(fs[i].ty)) # "ok"}
         IN  IF bad = {} THEN "ok"
             ELSE CompileOutcome(TypeIdent(
                      fs[CHOOSE i \in bad : \A j \in bad : i <= j].ty))

(***************************************************************************)
(* The generated methods.                                                  *)
(***************************************************************************)
RECURSIVE Resolve(_, _, _)
RECURSIVE LoadFields(_, _, _, _, _, _)

\* a loader that is run a second time when it fails
LoadFieldRetry(f, call, e) ==
    LET r == IF IsLeaf(f)
             THEN LoadLeaf(f, IF call.with_prefix
                              THEN LeafNameWithPrefix(f, call.prefix)
                              ELSE LeafName(f), e)
             ELSE Resolve(TypeIdent(f.ty),
                          IF call.with_prefix
                          THEN NestedCallWithPrefix(f, call.prefix)
                          ELSE NestedCall(f), e)
    IN  IF r.kind = "Ok" THEN r ELSE [r EXCEPT !.reads = @ \o @]

\* one element of field_loaders / field_loaders_with_prefix
LoadField(f, call, e) ==
    IF IsLeaf(f)
    THEN LoadLeaf(f, IF call.with_prefix
                     THEN LeafNameWithPrefix(f, call.prefix)
                     ELSE LeafName(f), e)
    ELSE Resolve(TypeIdent(f.ty),
                 IF call.with_prefix
                 THEN NestedCallWithPrefix(f, call.prefix)
                 ELSE NestedCall(f), e)

\* a struct expression that runs every loader and returns the last Err
LoadFieldsLastError(T, call, e, i, vals, rd) ==
    LET fs == Structs[T].fields
    IN  IF i > Len(fs) THEN Ok(vals, rd)
        ELSE LET r    == LoadField(fs[i], call, e)
                 rest == LoadFields(T, call, e, i + 1,
                                    Append(vals, r.value), rd \o r.reads)
             IN  IF r.kind = "Ok" \/ rest.kind # "Ok" THEN rest
                 ELSE [r EXCEPT !.reads = rd \o r.reads]

\* a struct expression that wraps the Err of a structured field into an
\* error naming the field itself
LoadFieldsWrapNested(T, call, e, i, vals, rd) ==
    LET fs == Structs[T].fields
    IN  IF i > Len(fs) THEN Ok(vals, rd)
        ELSE LET r == LoadField(fs[i], call, e)
             IN  IF r.kind = "Ok"
                 THEN LoadFields(T, call, e, i + 1,
                                 Append(vals, r.value), rd \o r.reads)
                 ELSE IF IsLeaf(fs[i])
                 THEN [r EXCEPT !.reads = rd \o r.reads]
                 ELSE [r EXCEPT !.reads = rd \o r.reads,
                                !.var_name = to_uppercase(fs[i].ident)]

\* Ok(Self { f1: loader1?, f2: loader2?, .. }): the loaders run in
\* declaration order and the first Err returns
LoadFields(T, call, e, i, vals, rd) ==
    LET fs == Structs[T].fields
    IN  IF i > Len(fs) THEN Ok(vals, rd)
        ELSE LET r == LoadField(fs[i], call, e)
             IN  IF r.kind = "Ok"
                 THEN LoadFields(T, call, e, i + 1,
                                 Append(vals, r.value), rd \o r.reads)
                 ELSE [r EXCEPT !.reads = rd \o r.reads]

\* <T as FromEnv>::from_env() and ::from_env_with_prefix(prefix)
Resolve(T, call, e) == LoadFields(T, call, e, 1, <<>>, <<>>)

\* a from_env that shares a cache with from_env_with_prefix and returns
\* what that call stored
from_envCached(T, e) ==
    IF CompileOutcome(T) # "ok" THEN CompileError(CompileOutcome(T))
    ELSE IF plain.kind = "NoCall" /\ prefixed.kind = "Ok" THEN prefixed
    ELSE Resolve(T, CallFromEnv, e)

\* T::from_env()
from_env(T, e) ==
    IF CompileOutcome(T) # "ok" THEN CompileError(CompileOutcome(T))
    ELSE Resolve(T, CallFromEnv, e)

\* T::from_env_with_prefix(prefix)
from_env_with_prefix(T, p, e) ==
    IF CompileOutcome(T) # "ok" THEN CompileError(CompileOutcome(T))
    ELSE Resolve(T, CallFromEnvWithPrefix(p), e)

(***************************************************************************)
(* The naming rule of the documentation: the variable each leaf of a       *)
(* schema is to be read from.  The claims below compare the generated      *)
(* code with it.                                                           *)
(***************************************************************************)
\* a struct-level prefix with one trailing separator removed
TrimOne(p) ==
    IF p # <<>> /\ p[Len(p)] = "_" THEN SubSeq(p, 1, Len(p) - 1) ELSE p

\* prefix + "_" + fragment, or the fragment alone under an empty prefix
RuleJoin(p, frag) == IF p = <<>> THEN frag ELSE p \o <<"_">> \o frag

\* the effective prefix of a node: parent first, own second
EffectivePrefix(incoming, own) ==
    IF own.some THEN RuleJoin(incoming, TrimOne(own.v)) ELSE incoming

\* Scalar(T), Optional(Scalar(T)) or Nested(SchemaNode)
SpecKind(f) ==
    IF f.ty.path = <<"Option">> THEN "Optional"
    ELSE IF TypeIdent(f.ty) \in DOMAIN Structs THEN "Nested"
    ELSE "Scalar"

\* the fragment a field adds to the prefix: its rename, else its name
Fragment(f) ==
    IF \E a \in f.extra : a.key = "rename"
    THEN (CHOOSE a \in f.extra : a.key = "rename").v
    ELSE f.ident

\* the type whose parser reads the leaf's text
LeafType(f) == IF SpecKind(f) = "Optional" THEN Ty(f.ty.args[1]) ELSE f.ty

\* the leaves of struct T reached with an incoming prefix, in declaration
\* order, depth first: the path of field indices, the rule's variable
\* name, the field, and the structured fields passed on the way (via)
RECURSIVE RuleLeaves(_, _, _, _)
RECURSIVE RuleLeavesFrom(_, _, _, _, _)
RuleLeavesFrom(T, eff, path, via, i) ==
    LET fs == Structs[T].fields
    IN  IF i > Len(fs) THEN <<>>
        ELSE LET f    == fs[i]
                 frag == to_uppercase(Fragment(f))
                 here ==
                    IF SpecKind(f) = "Nested"
                    THEN RuleLeaves(TypeIdent(f.ty),
                                    IF f.no_prefix THEN eff
                                    ELSE RuleJoin(eff, frag),
                                    Append(path, i), Append(via, f))
                    ELSE <<[path  |-> Append(path, i),
                            name  |-> IF f.var.some THEN f.var.v
                                      ELSE RuleJoin(eff, frag),
                            f     |-> f,
                            owner |-> T,
                            via   |-> via]>>
             IN  here \o RuleLeavesFrom(T, eff, path, via, i + 1)

RuleLeaves(T, incoming, path, via) ==
    RuleLeavesFrom(T, EffectivePrefix(incoming, Structs[T].prefix_attr),
                   path, via, 1)

Leaves(T, incoming) == RuleLeaves(T, incoming, <<>>, <<>>)

\* the names the generated code can look up for struct T under a call
RECURSIVE CodeNames(_, _)
CodeNames(T, call) ==
    IF T \notin DOMAIN Structs THEN {}
    ELSE LET fs == Structs[T].fields
         IN  UNION {IF IsLeaf(fs[i])
                    THEN {IF call.with_prefix
                          THEN LeafNameWithPrefix(fs[i], call.prefix)
                          ELSE LeafName(fs[i])}
                    ELSE CodeNames(TypeIdent(fs[i].ty),
                                   IF call.with_prefix
                                   THEN NestedCallWithPrefix(fs[i], call.prefix)
                                   ELSE NestedCall(fs[i]))
                    : i \in DOMAIN fs}

\* the leaf loaders the generated code of struct T holds under a call, in
\* the order of the struct expressions: each leaf's field, the name its
\* loader reads and the number of structured fields above it
RECURSIVE CodeLeaves(_, _, _)
RECURSIVE CodeLeavesFrom(_, _, _, _)
CodeLeavesFrom(T, call, depth, i) ==
    LET fs == Structs[T].fields
    IN  IF i > Len(fs) THEN <<>>
        ELSE LET f    == fs[i]
                 here ==
                    IF IsLeaf(f)
                    THEN <<[f     |-> f,
                            name  |-> IF call.with_prefix
                                      THEN LeafNameWithPrefix(f, call.prefix)
                                      ELSE LeafName(f),
                            depth |-> depth]>>
                    ELSE CodeLeaves(TypeIdent(f.ty),
                                    IF call.with_prefix
                                    THEN NestedCallWithPrefix(f, call.prefix)
                                    ELSE NestedCall(f),
                                    depth + 1)
             IN  here \o CodeLeavesFrom(T, call, depth, i + 1)

CodeLeaves(T, call, depth) ==
    IF T \notin DOMAIN Structs THEN <<>>
    ELSE CodeLeavesFrom(T, call, depth, 1)

(***************************************************************************)
(* The program: one derived struct, the prefix its caller passes, and the  *)
(* process environment.                                                    *)
(***************************************************************************)
\* the texts a variable is set to
Texts == {<<>>, <<"4","2">>, <<"x">>}

\* the prefixes passed to from_env_with_prefix
Prefixes == {<<>>, <<"A","P","P">>, <<"A","_","B">>}

\* the variable names the environment is populated from: those the code
\* looks up and those the naming rule gives
Names(T, p) ==
    CodeNames(T, CallFromEnv) \cup CodeNames(T, CallFromEnvWithPrefix(p))
    \cup {Leaves(T, <<>>)[k].name : k \in DOMAIN Leaves(T, <<>>)}
    \cup {Leaves(T, p)[k].name : k \in DOMAIN Leaves(T, p)}

\* no call of from_env() is under way
Idle == [pc |-> "idle", k |-> 0, text |-> <<>>, vals |-> <<>>, reads |-> <<>>]

Init ==
    /\ root \in DOMAIN Structs
    /\ prefix \in Prefixes
    /\ names = Names(root, prefix)
    /\ env = <<>>
    /\ plain = NoCall
    /\ prefixed = NoCall
    /\ run = Idle

\* std::env::set_var(n, t)
SetVar(n, t) ==
    /\ Cardinality(DOMAIN env \cup {n}) <= MaxSet
    /\ env' = [m \in DOMAIN env \cup {n} |-> IF m = n THEN t ELSE env[m]]
    /\ plain' = NoCall
    /\ prefixed' = NoCall
    /\ UNCHANGED <<root, prefix, names, run>>

\* std::env::remove_var(n)
RemoveVar(n) ==
    /\ n \in DOMAIN env
    /\ env' = [m \in DOMAIN env \ {n} |-> env[m]]
    /\ plain' = NoCall
    /\ prefixed' = NoCall
    /\ UNCHANGED <<root, prefix, names, run>>

\* let plain = T::from_env();
CallPlain ==
    /\ plain' = from_env(root, env)
    /\ UNCHANGED <<root, prefix, names, env, prefixed, run>>

\* let prefixed = T::from_env_with_prefix(prefix);
CallPrefixed ==
    /\ prefixed' = from_env_with_prefix(root, prefix, env)
    /\ UNCHANGED <<root, prefix, names, env, plain, run>>

Next ==
    \/ \E n \in names, t \in Texts : SetVar(n, t)
    \/ \E n \in names : RemoveVar(n)
    \/ CallPlain
    \/ CallPrefixed

Spec == Init /\ [][Next]_vars

TypeOK ==
    /\ root \in DOMAIN Structs
    /\ prefix \in Prefixes
    /\ Cardinality(DOMAIN env) <= MaxSet
    /\ plain.kind \in {"NoCall", "Ok", "MissingEnvVar", "ParsingFailure",
                       "Panic", "CompileError"}

(***************************************************************************)
(* A call of from_env() taken one environment access at a time, while      *)
(* another thread sets and removes variables.                              *)
(***************************************************************************)
\* Self { .. } built from the leaf values in the order the loaders ran
RECURSIVE Assemble(_, _)
RECURSIVE AssembleFrom(_, _, _, _)
AssembleFrom(T, vals, i, acc) ==
    LET fs == Structs[T].fields
    IN  IF i > Len(fs) THEN [tree |-> acc, rest |-> vals]
        ELSE IF IsLeaf(fs[i])
        THEN AssembleFrom(T, Tail(vals), i + 1, Append(acc, Head(vals)))
        ELSE LET sub == Assemble(TypeIdent(fs[i].ty), vals)
             IN  AssembleFrom(T, sub.rest, i + 1, Append(acc, sub.tree))

Assemble(T, vals) == AssembleFrom(T, vals, 1, <<>>)

\* the leaf loaders of root::from_env(), in the order they run
RaceLeaves == CodeLeaves(root, CallFromEnv, 0)

\* let plain = T::from_env(); is entered
BeginFromEnv ==
    /\ run.pc \in {"idle", "done"}
    /\ CompileOutcome(root) = "ok"
    /\ RaceLeaves # <<>>
    /\ run' = [Idle EXCEPT !.pc = "read", !.k = 1]
    /\ plain' = NoCall
    /\ UNCHANGED <<root, prefix, names, env, prefixed>>

\* std::env::var(name) of the current leaf: MissingEnvVar, or the text
\* (the default's when the variable is absent) that goes to the parser
ReadVar ==
    /\ run.pc = "read"
    /\ LET l     == RaceLeaves[run.k]
           first == env_var(env, l.name)
           rd    == Append(run.reads, l.name)
       IN  IF ~first.ok /\ ~l.f.default.some
           THEN /\ plain' = MissingEnvVar(l.name, rd)
                /\ run' = [run EXCEPT !.pc = "done", !.reads = rd]
           ELSE /\ run' = [run EXCEPT !.pc = "parse", !.reads = rd,
                                      !.text = IF first.ok THEN first.v
                                               ELSE l.f.default.v]
                /\ plain' = plain
    /\ UNCHANGED <<root, prefix, names, env, prefixed>>

\* from_str of the text read: the next loader, Ok(Self { .. }) after the
\* last one, or the map_err closure
ParseText ==
    /\ run.pc = "parse"
    /\ LET l      == RaceLeaves[run.k]
           parsed == from_str(l.f.ty, run.text)
           vs     == Append(run.vals, parsed.val)
       IN  IF ~parsed.ok
           THEN /\ run' = [run EXCEPT !.pc = "reread"]
                /\ plain' = plain
           ELSE IF run.k = Len(RaceLeaves)
           THEN /\ plain' = Ok(Assemble(root, vs).tree, run.reads)
                /\ run' = [run EXCEPT !.pc = "done", !.vals = vs]
           ELSE /\ run' = [run EXCEPT !.pc = "read", !.k = @ + 1, !.vals = vs]
                /\ plain' = plain
    /\ UNCHANGED <<root, prefix, names, env, prefixed>>

\* the map_err closure: str_value is std::env::var(name) read again,
\* unwrapped, or with the default as fallback
ReadVarAgain ==
    /\ run.pc = "reread"
    /\ LET l      == RaceLeaves[run.k]
           second == env_var(env, l.name)
           rd     == Append(run.reads, l.name)
       IN  /\ plain' =
                 IF second.ok
                 THEN ParsingFailure(l.name, stringify(l.f.ty), second.v, rd)
                 ELSE IF l.f.default.some
                 THEN ParsingFailure(l.name, stringify(l.f.ty),
                                     l.f.default.v, rd)
                 ELSE Panic(l.name, rd)
           /\ run' = [run EXCEPT !.pc = "done", !.reads = rd]
    /\ UNCHANGED <<root, prefix, names, env, prefixed>>

\* a struct that builds, and the variables its from_env() looks up
InitRace ==
    /\ root \in {T \in DOMAIN Structs : CompileOutcome(T) = "ok"}
    /\ prefix = <<>>
    /\ names = CodeNames(root, CallFromEnv)
    /\ env = <<>>
    /\ plain = NoCall
    /\ prefixed = NoCall
    /\ run = Idle

NextRace ==
    \/ \E n \in names, t \in Texts : SetVar(n, t)
    \/ \E n \in names : RemoveVar(n)
    \/ BeginFromEnv
    \/ ReadVar
    \/ ParseText
    \/ ReadVarAgain

SpecRace == InitRace /\ [][NextRace]_vars

(***************************************************************************)
(* What the claims speak of.                                               *)
(***************************************************************************)
\* the calls made since the environment last changed, each with the
\* incoming prefix it resolves the root at
Calls ==
    {c \in {[r |-> plain, incoming |-> <<>>],
            [r |-> prefixed, incoming |-> prefix]} : c.r.kind # "NoCall"}

Present(l) == l.name \in DOMAIN env

\* the text the rule has the leaf parse: the variable's, else the default
RuleText(l) == IF Present(l) THEN env[l.name] ELSE l.f.default.v

RuleParse(l) == from_str(LeafType(l.f), RuleText(l))

Required(l) == SpecKind(l.f) = "Scalar" /\ ~l.f.default.some

\* the leaf resolves under the rule: nothing missing, nothing unparseable
Satisfied(l) ==
    IF Present(l) THEN RuleParse(l).ok
    ELSE \/ SpecKind(l.f) = "Optional"
         \/ l.f.default.some /\ RuleParse(l).ok

\* the value the rule gives a satisfied leaf
Expected(l) ==
    IF SpecKind(l.f) = "Optional"
    THEN [some |-> Present(l), inner |-> RuleParse(l).val]
    ELSE RuleParse(l).val

RECURSIVE ValueAt(_, _)
ValueAt(v, path) ==
    IF path = <<>> THEN v ELSE ValueAt(v[Head(path)], Tail(path))

AllSatisfied(ls) == \A k \in DOMAIN ls : Satisfied(ls[k])

EarlierSatisfied(ls, k) == \A j \in 1..(k - 1) : Satisfied(ls[j])

OthersSatisfied(ls, k) == \A j \in DOMAIN ls \ {k} : Satisfied(ls[j])

\* C1: whenever every leaf's variable, named by the rule (effective prefix
\* + "_" + UPPERCASE(field), the fragment alone under an empty effective
\* prefix), is present and parseable, the call succeeds and every leaf
\* value is the parse of that variable's text.  Stated for the schemas of
\* scalar leaves; Optional leaves are the subject of C4 and C5.
C1_ResolvesFromRuleNames ==
    \A c \in Calls :
        LET ls == Leaves(root, c.incoming)
        IN  (/\ AllSatisfied(ls)
             /\ \A k \in DOMAIN ls : SpecKind(ls[k].f) = "Scalar") =>
                /\ c.r.kind = "Ok"
                /\ \A k \in DOMAIN ls :
                       ValueAt(c.r.value, ls[k].path) = Expected(ls[k])

\* C2: a scalar leaf that is not Optional and has no default, whose
\* variable (named by the rule, or by var verbatim) is absent, makes the
\* call return MissingEnvVar with that name.
C2_MissingNamesRuleVariable ==
    \A c \in Calls :
        LET ls == Leaves(root, c.incoming)
        IN  \A k \in DOMAIN ls :
                (Required(ls[k]) /\ ~Present(ls[k]) /\ EarlierSatisfied(ls, k))
                => /\ c.r.kind = "MissingEnvVar"
                   /\ c.r.var_name = ls[k].name

\* C3: a scalar leaf whose variable is present with a text its parser
\* rejects makes the call return ParsingFailure with the composed name,
\* the name of the field's type and the raw text.
C3_ParsingFailureFields ==
    \A c \in Calls :
        LET ls == Leaves(root, c.incoming)
        IN  \A k \in DOMAIN ls :
                (/\ SpecKind(ls[k].f) = "Scalar"
                 /\ Present(ls[k]) /\ ~RuleParse(ls[k]).ok
                 /\ EarlierSatisfied(ls, k))
                => /\ c.r.kind = "ParsingFailure"
                   /\ c.r.var_name = ls[k].name
                   /\ c.r.expected_type = stringify(ls[k].f.ty)
                   /\ c.r.str_value = env[ls[k].name]

\* the leaf's name is composed from the prefix chain, not given by var
Composed(l) == ~l.f.var.some

\* C4: an Optional leaf whose variable is absent resolves to None and
\* does not make the call fail.  Stated for the leaves whose name the
\* prefix composes; a var override on a leaf is the subject of C7.
C4_AbsentOptionalIsNone ==
    \A c \in Calls :
        LET ls == Leaves(root, c.incoming)
        IN  \A k \in DOMAIN ls :
                (/\ SpecKind(ls[k].f) = "Optional" /\ Composed(ls[k])
                 /\ ~Present(ls[k]) /\ OthersSatisfied(ls, k))
                => /\ c.r.kind = "Ok"
                   /\ ValueAt(c.r.value, ls[k].path) = Expected(ls[k])

\* C5: an Optional leaf whose variable is present is parsed with the
\* inner type's parser: Some(value) on success, ParsingFailure naming the
\* variable on failure, never None.  Stated, as C4, for composed names.
C5_PresentOptionalIsParsed ==
    \A c \in Calls :
        LET ls == Leaves(root, c.incoming)
        IN  \A k \in DOMAIN ls :
                (/\ SpecKind(ls[k].f) = "Optional" /\ Composed(ls[k])
                 /\ Present(ls[k]))
                => /\ (RuleParse(ls[k]).ok /\ OthersSatisfied(ls, k))
                      => /\ c.r.kind = "Ok"
                         /\ ValueAt(c.r.value, ls[k].path) = Expected(ls[k])
                   /\ (~RuleParse(ls[k]).ok /\ EarlierSatisfied(ls, k))
                      => /\ c.r.kind = "ParsingFailure"
                         /\ c.r.var_name = ls[k].name

\* C6: a scalar leaf with a default takes the parse of the default when
\* its variable is absent, without MissingEnvVar, and the parse of the
\* variable's text when it is present.
C6_DefaultOnlyWhenAbsent ==
    \A c \in Calls :
        LET ls == Leaves(root, c.incoming)
        IN  \A k \in DOMAIN ls :
                (/\ SpecKind(ls[k].f) = "Scalar" /\ ls[k].f.default.some
                 /\ AllSatisfied(ls))
                => /\ c.r.kind = "Ok"
                   /\ ValueAt(c.r.value, ls[k].path)
                        = from_str(ls[k].f.ty,
                                   IF Present(ls[k]) THEN env[ls[k].name]
                                   ELSE ls[k].f.default.v).val

\* C7: a leaf with var = X is read from X verbatim whatever the prefix
\* and depth, and an error for it reports var_name = X.
C7_VarIsVerbatim ==
    \A c \in Calls :
        LET ls == Leaves(root, c.incoming)
        IN  \A k \in DOMAIN ls :
                (ls[k].f.var.some /\ EarlierSatisfied(ls, k))
                => /\ \E i \in DOMAIN c.r.reads : c.r.reads[i] = ls[k].f.var.v
                   /\ c.r.kind = "Ok"
                      => ValueAt(c.r.value, ls[k].path) = Expected(ls[k])
                   /\ ~Satisfied(ls[k])
                      => /\ c.r.kind \in {"MissingEnvVar", "ParsingFailure"}
                         /\ c.r.var_name = ls[k].f.var.v

\* C8: below nested fields without no_prefix, every leaf is read from the
\* name composed by adding "_" + UPPERCASE(field) at each level (the
\* fragment alone under an empty effective prefix).
C8_NestedPrefixComposes ==
    \A c \in Calls :
        LET ls == Leaves(root, c.incoming)
        IN  c.r.kind = "Ok" =>
                \A k \in DOMAIN ls :
                    (/\ Composed(ls[k]) /\ ls[k].via # <<>>
                     /\ \A i \in DOMAIN ls[k].via : ~ls[k].via[i].no_prefix)
                    => c.r.reads[k] = ls[k].name

\* C9: below a nested field marked no_prefix, every leaf is read under
\* the parent's effective prefix unchanged: the field's fragment is not
\* added and the parent's prefix is not dropped.
C9_NoPrefixKeepsParentPrefix ==
    \A c \in Calls :
        LET ls == Leaves(root, c.incoming)
        IN  c.r.kind = "Ok" =>
                \A k \in DOMAIN ls :
                    (/\ Composed(ls[k]) /\ ls[k].via # <<>>
                     /\ ls[k].via[Len(ls[k].via)].no_prefix)
                    => c.r.reads[k] = ls[k].name

\* C10: a struct's own prefix, trimmed of one trailing separator, is
\* joined after the incoming prefix, and every field f of the struct is
\* read from incoming + "_" + own + "_" + UPPERCASE(f).
C10_OwnPrefixJoinsIncoming ==
    \A c \in Calls :
        LET ls == Leaves(root, c.incoming)
        IN  c.r.kind = "Ok" =>
                \A k \in DOMAIN ls :
                    (Composed(ls[k]) /\ Structs[ls[k].owner].prefix_attr.some)
                    => c.r.reads[k] = ls[k].name

\* C11: from_env() and from_env_with_prefix("") look up the same
\* variables and return the same result: under an empty prefix a field's
\* variable is its fragment alone, with no leading separator.
C11_EmptyPrefixIsFromEnv ==
    (prefix = <<>> /\ plain.kind # "NoCall" /\ prefixed.kind # "NoCall")
    => prefixed = plain

\* the field carries a rename attribute
HasRename(f) == \E a \in f.extra : a.key = "rename"

\* C12: a rename replaces the field's fragment: the upper-cased rename is
\* joined to the effective prefix like a field name, for a leaf and for
\* the leaves below a renamed nested field, and the call resolves from
\* those names.
C12_RenameReplacesFragment ==
    \A c \in Calls :
        LET ls == Leaves(root, c.incoming)
        IN  \A k \in DOMAIN ls :
                (/\ \/ HasRename(ls[k].f)
                    \/ \E i \in DOMAIN ls[k].via : HasRename(ls[k].via[i])
                 /\ AllSatisfied(ls))
                => /\ c.r.kind = "Ok"
                   /\ c.r.reads[k] = ls[k].name

\* C13: below a nested field marked no_prefix whose struct has a prefix of
\* its own, the leaves are read under the parent's effective prefix joined
\* with the child's own prefix (OUT_DB_HOST for parent OUT_, child DB_).
C13_NoPrefixThenChildPrefix ==
    \A c \in Calls :
        LET ls == Leaves(root, c.incoming)
        IN  c.r.kind = "Ok" =>
                \A k \in DOMAIN ls :
                    (/\ Composed(ls[k]) /\ ls[k].via # <<>>
                     /\ ls[k].via[Len(ls[k].via)].no_prefix
                     /\ Structs[ls[k].owner].prefix_attr.some)
                    => c.r.reads[k] = ls[k].name

\* the resolutions run since the environment last changed, each with the
\* call that ran it
Runs ==
    {c \in {[r |-> plain, call |-> CallFromEnv],
            [r |-> prefixed, call |-> CallFromEnvWithPrefix(prefix)]} :
        c.r.kind \notin {"NoCall", "CompileError"}}

\* what the loader of a leaf returns in the current environment
LeafOutcome(l) == LoadLeaf(l.f, l.name, env)

\* the leaves whose loader fails
Failing(cl) == {k \in DOMAIN cl : LeafOutcome(cl[k]).kind # "Ok"}

First(ks) == CHOOSE k \in ks : \A j \in ks : k <= j

\* C14: resolution is fail-fast in declaration order, depth first: it
\* succeeds when no leaf fails, and otherwise returns the error of the
\* first failing leaf of the traversal, has read no variable of a later
\* leaf and returns no partial tree.
C14_FailFastInDeclarationOrder ==
    \A c \in Runs :
        LET cl == CodeLeaves(root, c.call, 0)
        IN  IF Failing(cl) = {} THEN c.r.kind = "Ok"
            ELSE LET k == First(Failing(cl))
                 IN  /\ c.r.kind = LeafOutcome(cl[k]).kind
                     /\ c.r.var_name = cl[k].name
                     /\ c.r.value = <<>>
                     /\ \A i \in DOMAIN c.r.reads :
                            \E j \in 1..k : c.r.reads[i] = cl[j].name

\* two leaves fail and the call returns the error of the first of them
C14_Witness ==
    \E c \in Runs :
        LET cl == CodeLeaves(root, c.call, 0)
        IN  /\ Cardinality(Failing(cl)) >= 2
            /\ c.r.kind \in {"MissingEnvVar", "ParsingFailure"}
            /\ c.r.var_name = cl[First(Failing(cl))].name

id_DATABASE_HOST == <<"D","A","T","A","B","A","S","E","_","H","O","S","T">>

\* C15: an error raised by a leaf of a nested struct is returned by the
\* root call unchanged: the kind, the fully composed var_name, the
\* expected_type and the str_value are those the nested leaf's loader
\* produced.  AppWithDatabase::from_env() with NAME set and DATABASE_HOST
\* absent returns MissingEnvVar { var_name: "DATABASE_HOST" }.
C15_NestedErrorUnchanged ==
    /\ \A c \in Runs :
        LET cl == CodeLeaves(root, c.call, 0)
        IN  (Failing(cl) # {} /\ cl[First(Failing(cl))].depth > 0)
            => LET o == LeafOutcome(cl[First(Failing(cl))])
               IN  /\ c.r.kind = o.kind
                   /\ c.r.var_name = o.var_name
                   /\ c.r.expected_type = o.expected_type
                   /\ c.r.str_value = o.str_value
    /\ (/\ root = "AppWithDatabase" /\ plain.kind # "NoCall"
        /\ id_DATABASE_HOST \notin DOMAIN env
        /\ to_uppercase(id_name) \in DOMAIN env)
       => /\ plain.kind = "MissingEnvVar"
          /\ plain.var_name = id_DATABASE_HOST

\* the host of the nested database is missing and the root call reports it
C15_Witness ==
    /\ root = "AppWithDatabase"
    /\ to_uppercase(id_name) \in DOMAIN env
    /\ plain.kind = "MissingEnvVar"
    /\ plain.var_name = id_DATABASE_HOST

\* default on an Optional or Nested field, var on a Nested field
InvalidField(f) ==
    \/ f.default.some /\ SpecKind(f) \in {"Optional", "Nested"}
    \/ f.var.some /\ SpecKind(f) = "Nested"

\* the schema of struct T holds an invalid combination, at any depth
RECURSIVE InvalidSchema(_)
InvalidSchema(T) ==
    /\ T \in DOMAIN Structs
    /\ \E i \in DOMAIN Structs[T].fields :
           LET f == Structs[T].fields[i]
           IN  \/ InvalidField(f)
               \/ SpecKind(f) = "Nested" /\ InvalidSchema(TypeIdent(f.ty))

\* the messages the derive rejects a field with
RejectionMessages ==
    {<<"Default value is not supported for structs">>,
     <<"Variable name specification is not suited for structured fields">>}

\* C16: a schema with default on an Optional field, default on a Nested
\* field or var on a Nested field is rejected when the schema is built,
\* by the derive itself: neither entry point reads the environment and
\* neither returns MissingEnvVar or ParsingFailure for it.
C16_InvalidCombinationsRejected ==
    InvalidSchema(root) =>
        \A c \in Calls :
            /\ c.r.kind = "CompileError"
            /\ c.r.expected_type \in RejectionMessages
            /\ c.r.reads = <<>>

\* both entry points of a schema with var on a Nested field have been
\* called in an environment that holds the variables its leaves would read
C16_Witness ==
    /\ root = "VarOnNested"
    /\ env # <<>>
    /\ plain.kind = "CompileError"
    /\ prefixed.kind = "CompileError"

\* the derive panicked, or the resolution did
Aborted(r) ==
    \/ r.kind = "Panic"
    \/ r.kind = "CompileError" /\ r.expected_type \in RejectionMessages

\* C17: an invalid combination is reported to the code that builds the
\* schema as an error value it can handle: building the schema does not
\* abort.
C17_InvalidCombinationIsErrorValue ==
    InvalidSchema(root) => \A c \in Calls : ~Aborted(c.r)

id_APP_NAME == <<"A","P","P","_","N","A","M","E">>

id_APP_HOST == <<"A","P","P","_","H","O","S","T">>

\* C18: with own prefix APP_, a scalar name, a no_prefix nested database
\* of host and port (default 5432) and the environment exactly
\* {APP_NAME, APP_HOST}, the root call succeeds with the name and the host
\* of the two variables and port = 5432.
C18_CombinedScenarioResolves ==
    (/\ root = "AppConfig" /\ plain.kind # "NoCall"
     /\ DOMAIN env = {id_APP_NAME, id_APP_HOST})
    => /\ plain.kind = "Ok"
       /\ plain.value = <<TxtVal(env[id_APP_NAME]),
                          <<TxtVal(env[id_APP_HOST]),
                            from_str(Ty("u16"), txt_5432).val>>>>

\* the types the documentation reads as one variable without a marker:
\* primitives, text, network addresses, paths and the user types with a
\* text parser
ScalarTypes ==
    {"i8", "i16", "i32", "i64", "i128", "u8", "u16", "u32", "u64", "u128",
     "f32", "f64", "bool", "char", "usize", "isize", "String",
     "IpAddr", "Ipv4Addr", "Ipv6Addr", "SocketAddr", "PathBuf", "LogLevel"}

\* a field with no attribute at all
PlainField(f) ==
    /\ ~f.default.some /\ ~f.var.some /\ ~f.no_prefix /\ ~f.from_str
    /\ f.extra = {}

\* C19: a field whose type is a primitive, text, IpAddr, Ipv4Addr,
\* Ipv6Addr, SocketAddr, PathBuf or a user type with a text parser is a
\* scalar leaf without any marker attribute: a struct of such fields
\* builds, and a call on it reads a variable for its first field.
C19_ScalarTypesAreLeaves ==
    (\A i \in DOMAIN Structs[root].fields :
        LET f == Structs[root].fields[i]
        IN  /\ PlainField(f) /\ Len(f.ty.path) = 1
            /\ TypeIdent(f.ty) \in ScalarTypes)
    => \A c \in Calls :
           /\ c.r.kind \in {"Ok", "MissingEnvVar", "ParsingFailure"}
           /\ c.r.reads # <<>>

\* C20: a resolution that fails returns MissingEnvVar or ParsingFailure
\* and nothing else, without a value, naming one variable: the one it read
\* last, which is the variable of a leaf whose loader fails.
C20_OnlyTwoErrorKinds ==
    \A c \in Runs :
        LET cl == CodeLeaves(root, c.call, 0)
        IN  /\ c.r.kind \in {"Ok", "MissingEnvVar", "ParsingFailure"}
            /\ c.r.kind # "Ok" =>
                   /\ c.r.value = <<>>
                   /\ c.r.var_name = c.r.reads[Len(c.r.reads)]
                   /\ \E k \in Failing(cl) : cl[k].name = c.r.var_name

\* a call has failed on a missing variable and another on a text the
\* parser rejects
C20_Witness ==
    /\ plain.kind = "ParsingFailure"
    /\ prefixed.kind = "MissingEnvVar"

NamesUpTo(cl, k) == [j \in 1..k |-> cl[j].name]

\* C22: a call on a struct tree returns, with a value or an error, after
\* running the loader of each field at most once, in order: the variables
\* it looked up are those of the leaves up to the one it stopped at, each
\* once (and the failing leaf's again for str_value), and all of them, each
\* once, when it succeeds.
C22_EachFieldVisitedOnce ==
    \A c \in Runs :
        LET cl == CodeLeaves(root, c.call, 0)
        IN  IF c.r.kind = "Ok"
            THEN c.r.reads = NamesUpTo(cl, Len(cl))
            ELSE \E k \in DOMAIN cl :
                    \/ c.r.reads = NamesUpTo(cl, k)
                    \/ /\ c.r.kind = "ParsingFailure"
                       /\ c.r.reads = Append(NamesUpTo(cl, k), cl[k].name)

\* a call on a tree three structs deep has returned a value, and one has
\* returned an error
C22_Witness ==
    /\ root = "DeepApp"
    /\ plain.kind = "Ok"
    /\ prefixed.kind = "MissingEnvVar"

\* C23: a variable set to the empty text is present: under from_env() a
\* text leaf whose variable holds "" resolves to "" (to Some("") when the
\* leaf is Optional), with no MissingEnvVar and without its default.
C23_EmptyTextIsPresent ==
    plain.kind # "NoCall" =>
        LET ls == Leaves(root, <<>>)
        IN  \A k \in DOMAIN ls :
                (/\ LeafType(ls[k].f) = Ty("String") /\ Composed(ls[k])
                 /\ Structs[ls[k].owner].prefix_attr = None
                 /\ Present(ls[k]) /\ env[ls[k].name] = <<>>
                 /\ OthersSatisfied(ls, k))
                => /\ plain.kind = "Ok"
                   /\ ValueAt(plain.value, ls[k].path) = Expected(ls[k])

\* C24: a scalar leaf with a default whose variable is absent and whose
\* default text its parser rejects makes the call return ParsingFailure
\* with the leaf's variable name (composed by the rule, or given by var)
\* and the default text as str_value: not MissingEnvVar, not an abort.
C24_BadDefaultIsParsingFailure ==
    \A c \in Calls :
        LET ls == Leaves(root, c.incoming)
        IN  \A k \in DOMAIN ls :
                (/\ SpecKind(ls[k].f) = "Scalar" /\ ls[k].f.default.some
                 /\ ~Present(ls[k])
                 /\ ~from_str(ls[k].f.ty, ls[k].f.default.v).ok
                 /\ EarlierSatisfied(ls, k))
                => /\ c.r.kind = "ParsingFailure"
                   /\ c.r.var_name = ls[k].name
                   /\ c.r.str_value = ls[k].f.default.v

\* the leaf has a text to parse: its variable's, or its default
HasText(l) == Present(l) \/ l.f.default.some

\* C25: errors are sound: MissingEnvVar { v } is returned only when v is
\* the variable of a leaf that is neither Optional nor defaulted and v is
\* absent from the environment; ParsingFailure { v, .. } only when v is
\* the variable of a leaf whose parser rejects the text it is given, the
\* variable's or else the default.
C25_ErrorsAreSound ==
    \A c \in Calls :
        LET ls == Leaves(root, c.incoming)
        IN  /\ c.r.kind = "MissingEnvVar" =>
                \E k \in DOMAIN ls :
                    /\ ls[k].name = c.r.var_name
                    /\ Required(ls[k])
                    /\ ~Present(ls[k])
            /\ c.r.kind = "ParsingFailure" =>
                \E k \in DOMAIN ls :
                    /\ ls[k].name = c.r.var_name
                    /\ HasText(ls[k])
                    /\ ~RuleParse(ls[k]).ok

\* C26: a leaf's variable is read once: the str_value of a ParsingFailure
\* is the text that was handed to the parser, and building the error does
\* not fail, also when another thread sets or removes the variable while
\* the call is running.
C26_StrValueIsParsedText ==
    run.pc = "done" =>
        /\ plain.kind # "Panic"
        /\ plain.kind = "ParsingFailure" => plain.str_value = run.text

\* the environments that differ from the current one in variable n only
Variants(n) ==
    {[m \in DOMAIN env \ {n} |-> env[m]]}
    \cup {[m \in DOMAIN env \cup {n} |-> IF m = n THEN t ELSE env[m]] :
             t \in Texts}

\* the variables the rule gives the leaves of the root under a prefix
LeafVariables(incoming) ==
    {Leaves(root, incoming)[k].name : k \in DOMAIN Leaves(root, incoming)}

\* what the caller sees of a result
Outcome(r) ==
    [kind |-> r.kind, value |-> r.value, var_name |-> r.var_name,
     expected_type |-> r.expected_type, str_value |-> r.str_value]

\* C27: the result of a call depends only on the variables of the
\* schema's leaves under the given prefix: in an environment that differs
\* in another variable only, the same call returns the same result.
C27_OnlyLeafVariablesMatter ==
    /\ plain.kind # "NoCall" =>
           \A n \in names \ LeafVariables(<<>>) :
               \A e2 \in Variants(n) :
                   Outcome(from_env(root, e2)) = Outcome(plain)
    /\ prefixed.kind # "NoCall" =>
           \A n \in names \ LeafVariables(prefix) :
               \A e2 \in Variants(n) :
                   Outcome(from_env_with_prefix(root, prefix, e2))
                       = Outcome(prefixed)

====
